---- MODULE Spec2Model ----
(***************************************************************************)
(* Model of src/main.ts of last-successful-build-action: the memoised      *)
(* commit verifier (verifyCommit) and the run selection of run().          *)
(***************************************************************************)
EXTENDS Integers, Sequences, FiniteSets, TLC

(* ---------------- bounds of the model ---------------- *)
MaxRuns == 3
MaxTime == 2

(* ---------------- value universes ---------------- *)
Undefined == "undefined"
Shas == {"a", "b"}
Branches == {"main", "dev"}
Conclusions == {"success", "failure"}
Times == 1..MaxTime

\* core.getInput("branch" / "job" / "verify" / "workflow"); "" is the unset input
InputSet ==
  [branch : {"", "main"}, job : {"", "test"}, verify : BOOLEAN, workflow : {"CI"}]

\* one element of response.data.workflow_runs, without its id and commit
RunData ==
  [head_branch : Branches, created_at : Times, conclusion : Conclusions]

\* the commits of the model: the runs of a response alternate between the two, so that runs
\* of the same commit and runs of different commits both occur in every order of creation
ShaOf(i) == IF i % 2 = 1 THEN "a" ELSE "b"

\* the run id is the position of the run in the response (ids are opaque and distinct)
WithIds(s) ==
  [i \in 1..Len(s) |->
     [id |-> i, head_sha |-> ShaOf(i), head_branch |-> s[i].head_branch,
      created_at |-> s[i].created_at, conclusion |-> s[i].conclusion]]

RunResponses == { WithIds(s) : s \in UNION { [1..n -> RunData] : n \in 0..MaxRuns } }

\* workflows.data.workflows as answered by listRepoWorkflows
WorkflowResponses ==
  { <<>>,
    << [id |-> 1, name |-> "deploy"] >>,
    << [id |-> 2, name |-> "ci"] >>,
    << [id |-> 1, name |-> "deploy"], [id |-> 2, name |-> "CI"] >> }

\* jobs.data.jobs as answered by listJobsForWorkflowRun
JobResponses ==
  { << [name |-> "Test", conclusion |-> "success"] >>,
    << [name |-> "test", conclusion |-> "failure"] >>,
    << [name |-> "test", conclusion |-> "failure"], [name |-> "test", conclusion |-> "success"] >> }

\* outcome of execAsync("git log --format=format:%H"): it rejects, or resolves with stdout lines
GitStdouts == { <<>>, <<"a">>, <<"b">>, <<"b", "a">> }
GitOutcomes ==
  { [fails |-> TRUE, stdout |-> <<>>] } \cup { [fails |-> FALSE, stdout |-> s] : s \in GitStdouts }
NoGit == [fails |-> FALSE, stdout |-> <<>>]

\* outcome of listJobsForWorkflowRun: it rejects, or resolves with the jobs of the run
JobOutcomes ==
  { [threw |-> TRUE, jobs |-> <<>>] } \cup { [threw |-> FALSE, jobs |-> j] : j \in JobResponses }
NoJobs == [threw |-> FALSE, jobs |-> <<>>]

(* ---------------- pure helpers ---------------- *)
\* String.prototype.toLowerCase on the workflow names of the model
ToLowerCase(s) ==
  CASE s = "CI" -> "ci"
    [] s = "Deploy" -> "deploy"
    [] OTHER -> s

\* JavaScript truthiness of a string | undefined value
Falsy(s) == s = Undefined \/ s = ""

\* stdout.trim().split("\n"): the empty output splits into one empty line
SplitLines(stdout) == IF stdout = <<>> THEN << "" >> ELSE stdout

\* variant: every element instead of some element
IncludesEvery(list, x) == \A i \in 1..Len(list) : list[i] = x

\* Array.prototype.includes
Includes(list, x) == \E i \in 1..Len(list) : list[i] = x

\* workflows.find(w => w.name.toLowerCase() === inputs.workflow.toLowerCase())?.id ; 0 is "undefined"
RECURSIVE FindWorkflowId(_, _)
FindWorkflowId(ws, name) ==
  IF ws = <<>> THEN 0
  ELSE IF ToLowerCase(Head(ws).name) = ToLowerCase(name) THEN Head(ws).id
       ELSE FindWorkflowId(Tail(ws), name)


\* variant: the job is accepted by its name alone
FoundJobNameOnly(jobs, jobName) ==
  \E i \in 1..Len(jobs) : jobs[i].name = jobName

\* job.name === inputs.job && job.conclusion === "success" for some job of the run
FoundJob(jobs, jobName) ==
  \E i \in 1..Len(jobs) : jobs[i].name = jobName /\ jobs[i].conclusion = "success"

\* variant: the filter without its branch test
KeepRunAnyBranch(x, in) ==
  in.job # "" \/ x.conclusion = "success"

\* the filter predicate of response.data.workflow_runs.filter(...)
KeepRun(x, in) ==
  /\ (in.branch = "" \/ x.head_branch = in.branch)
  /\ (in.job # "" \/ x.conclusion = "success")

RECURSIVE FilterRuns(_, _)
FilterRuns(s, in) ==
  IF s = <<>> THEN <<>>
  ELSE IF KeepRun(Head(s), in) THEN << Head(s) >> \o FilterRuns(Tail(s), in)
       ELSE FilterRuns(Tail(s), in)

\* variant: the comparator with its operands swapped
CompareRunsAscending(r1, r2) == r1.created_at - r2.created_at

\* the comparator of .sort(...): getTime(r2.created_at) - getTime(r1.created_at)
CompareRuns(r1, r2) == r2.created_at - r1.created_at

\* Array.prototype.sort is stable: r goes behind every element that does not compare after it
RECURSIVE InsertRun(_, _)
InsertRun(r, s) ==
  IF s = <<>> THEN << r >>
  ELSE IF CompareRuns(Head(s), r) <= 0 THEN << Head(s) >> \o InsertRun(r, Tail(s))
       ELSE << r >> \o s

RECURSIVE SortRuns(_)
SortRuns(s) ==
  IF s = <<>> THEN <<>>
  ELSE InsertRun(s[Len(s)], SortRuns(SubSeq(s, 1, Len(s) - 1)))

\* variant: an empty cache counts as no cache
NeedsListingWhenEmpty(cache) == ~cache.defined \/ cache.list = <<>>

\* `if (!repoShas)`: only undefined is falsy, an empty array is not
NeedsListing(cache) == ~cache.defined

\* verifyCommit(sha) on the cache `cache`, when git answers `git`
VerifyCommit(cache, git, sha) ==
  IF NeedsListing(cache)
  THEN IF git.fails
       THEN [repoShas |-> [defined |-> TRUE, list |-> <<>>], result |-> FALSE,
             listed |-> 1, written |-> 1, warned |-> TRUE, infos |-> << "git-log" >>]
       ELSE [repoShas |-> [defined |-> TRUE, list |-> SplitLines(git.stdout)],
             result |-> Includes(SplitLines(git.stdout), sha),
             listed |-> 1, written |-> 1, warned |-> FALSE, infos |-> << "git-log", "lookup" >>]
  ELSE [repoShas |-> cache, result |-> Includes(cache.list, sha),
        listed |-> 0, written |-> 0, warned |-> FALSE, infos |-> << "lookup" >>]

\* what a loop iteration does when verifyCommit is not called
NotVerified(cache) ==
  [repoShas |-> cache, result |-> TRUE, listed |-> 0, written |-> 0, warned |-> FALSE, infos |-> <<>>]

\* line 90: the branch re-check of the loop
BranchOk(run, in) == ~(in.branch # "" /\ run.head_branch # in.branch)

\* line 94: verifyCommit is awaited only when inputs.verify is set, after the branch check
NeedsVerify(in, branchOk) == branchOk /\ in.verify

\* variant: the jobs are listed before the commit is verified
NeedsJobsBeforeVerify(in, branchOk, verified) == branchOk /\ in.job # ""

\* line 99: the jobs are listed only when inputs.job is set, after branch check and verification
NeedsJobs(in, branchOk, verified) == branchOk /\ verified /\ in.job # ""

\* variant: a skipped run is not warned about
LoopWarningsNoSkip(needVerify, v) ==
  IF v.warned THEN << "history-error" >> ELSE <<>>

\* warnings of one loop iteration: the one of verifyCommit (line 21), then the skip (line 95)
LoopWarnings(needVerify, v) ==
  (IF v.warned THEN << "history-error" >> ELSE <<>>)
    \o (IF needVerify /\ ~v.result THEN << "verify-skip" >> ELSE <<>>)

\* variant: only the first run the loop reaches is remembered
KeepFirstSha(last, run) == IF last = Undefined THEN run.head_sha ELSE last

\* line 85: lastSha is overwritten by every run the loop reaches
NextLastSha(last, run) == run.head_sha

\* variant: the warning is kept for a scan that had runs
FinalWarningsWithRuns(s, nruns) == IF Falsy(s) /\ nruns > 0 THEN << "unable" >> ELSE <<>>

\* lines 134-139: the warning after the loop
FinalWarnings(s, nruns) == IF Falsy(s) THEN << "unable" >> ELSE <<>>

\* lines 134-139: the value handed to core.setOutput
FinalSha(s, last) == IF Falsy(s) THEN last ELSE s

\* variant: the id is tested against a value find() never answers
WorkflowIsNull(id) == id = -1

\* line 55: `!workflowId`
WorkflowMissing(id) == id = 0

(* ---------------- state ---------------- *)
VARIABLES
  inputs,        \* the inputs of the action
  pc,            \* position of run(): "start", "runs", "scan", "emit", "done", "failed"
  repoShas,      \* the module-level cache: [defined, list]
  workflowId,    \* 0 while undefined
  fetched,       \* response.data.workflow_runs
  runs,          \* the filtered and sorted runs
  idx,           \* number of runs the loop has reached
  lastSha, sha,  \* the two locals of run()
  selected,      \* index in runs of the run the loop stopped at (0: none)
  output,        \* core.setOutput("sha", ...): [set, value]
  failed,        \* messages given to core.setFailed
  warnings,      \* core.warning calls, in order
  infos,         \* core.info calls, in order
  calls,         \* [git, writes, workflows, runs]: collaborator calls and cache writes so far
  verifyLog,     \* verifyCommit calls: [sha, result, listed]
  jobLog         \* listJobsForWorkflowRun calls: [at, run_id, threw, jobs]

vars == << inputs, pc, repoShas, workflowId, fetched, runs, idx, lastSha, sha,
           selected, output, failed, warnings, infos, calls, verifyLog, jobLog >>

Init ==
  /\ inputs \in InputSet
  /\ pc = "start"
  /\ repoShas = [defined |-> FALSE, list |-> <<>>]
  /\ workflowId = 0
  /\ fetched = <<>>
  /\ runs = <<>>
  /\ idx = 0
  /\ lastSha = Undefined
  /\ sha = Undefined
  /\ selected = 0
  /\ output = [set |-> FALSE, value |-> Undefined]
  /\ failed = <<>>
  /\ warnings = <<>>
  /\ infos = <<>>
  /\ calls = [git |-> 0, writes |-> 0, workflows |-> 0, runs |-> 0]
  /\ verifyLog = <<>>
  /\ jobLog = <<>>

(* ---------------- run() ---------------- *)
\* lines 47-60: the workflows are listed and the id is looked up by name
ListRepoWorkflows ==
  /\ pc = "start"
  /\ \E ws \in WorkflowResponses :
       LET id == FindWorkflowId(ws, inputs.workflow) IN
       /\ workflowId' = id
       /\ calls' = [calls EXCEPT !.workflows = @ + 1]
       /\ IF WorkflowMissing(id)
          THEN /\ pc' = "failed"
               /\ failed' = Append(failed, "no-workflow")
               /\ infos' = infos
          ELSE /\ pc' = "runs"
               /\ failed' = failed
               /\ infos' = Append(infos, "workflow-id")
  /\ UNCHANGED << inputs, repoShas, fetched, runs, idx, lastSha, sha, selected, output,
                  warnings, verifyLog, jobLog >>

\* line 47 rejects: the catch of line 142 reports the error
ListRepoWorkflowsThrows ==
  /\ pc = "start"
  /\ pc' = "failed"
  /\ failed' = Append(failed, "error")
  /\ calls' = [calls EXCEPT !.workflows = @ + 1]
  /\ UNCHANGED << inputs, repoShas, workflowId, fetched, runs, idx, lastSha, sha,
                  selected, output, warnings, infos, verifyLog, jobLog >>

\* lines 62-82: the runs are listed, filtered and sorted
ListWorkflowRuns ==
  /\ pc = "runs"
  /\ \E resp \in RunResponses :
       /\ fetched' = resp
       /\ runs' = SortRuns(FilterRuns(resp, inputs))
       /\ pc' = IF Len(SortRuns(FilterRuns(resp, inputs))) > 0 THEN "scan" ELSE "emit"
  /\ calls' = [calls EXCEPT !.runs = @ + 1]
  /\ UNCHANGED << inputs, repoShas, workflowId, idx, lastSha, sha, selected, output,
                  failed, warnings, infos, verifyLog, jobLog >>

\* line 62 rejects
ListWorkflowRunsThrows ==
  /\ pc = "runs"
  /\ pc' = "failed"
  /\ failed' = Append(failed, "error")
  /\ calls' = [calls EXCEPT !.runs = @ + 1]
  /\ UNCHANGED << inputs, repoShas, workflowId, fetched, runs, idx, lastSha, sha,
                  selected, output, warnings, infos, verifyLog, jobLog >>


\* lines 84-129: one iteration of the loop over runs, up to its continue, break or throw
ScanRun ==
  /\ pc = "scan"
  /\ idx < Len(runs)
  /\ LET run == runs[idx + 1]
         branchOk == BranchOk(run, inputs)
         needVerify == NeedsVerify(inputs, branchOk)
     IN
     \E git \in (IF needVerify /\ NeedsListing(repoShas) THEN GitOutcomes ELSE { NoGit }) :
       LET v == IF needVerify THEN VerifyCommit(repoShas, git, run.head_sha)
                ELSE NotVerified(repoShas)
           needJobs == NeedsJobs(inputs, branchOk, v.result)
       IN
       \E jr \in (IF needJobs THEN JobOutcomes ELSE { NoJobs }) :
         LET threw == needJobs /\ jr.threw
             jobOk == inputs.job = "" \/ (needJobs /\ ~jr.threw /\ FoundJob(jr.jobs, inputs.job))
             qualifies == branchOk /\ v.result /\ jobOk /\ ~threw
         IN
         /\ idx' = idx + 1
         /\ lastSha' = NextLastSha(lastSha, run)
         /\ repoShas' = v.repoShas
         /\ calls' = [calls EXCEPT !.git = @ + v.listed, !.writes = @ + v.written]
         /\ verifyLog' = IF needVerify
                         THEN Append(verifyLog, [sha |-> run.head_sha, result |-> v.result,
                                                 listed |-> v.listed, failed |-> v.warned])
                         ELSE verifyLog
         /\ warnings' = warnings \o LoopWarnings(needVerify, v)
         /\ jobLog' = IF needJobs
                      THEN Append(jobLog, [at |-> idx + 1, run_id |-> run.id,
                                           threw |-> jr.threw, jobs |-> jr.jobs])
                      ELSE jobLog
         /\ infos' = infos \o v.infos \o (IF qualifies THEN << "selected" >> ELSE <<>>)
         /\ sha' = IF qualifies THEN run.head_sha ELSE sha
         /\ selected' = IF qualifies THEN idx + 1 ELSE selected
         /\ failed' = IF threw THEN Append(failed, "error") ELSE failed
         /\ pc' = IF threw THEN "failed"
                  ELSE IF qualifies \/ idx + 1 = Len(runs) THEN "emit"
                  ELSE "scan"
  /\ UNCHANGED << inputs, workflowId, fetched, runs, output >>

\* lines 130-141: the else branch of the length test, the fallback and the output
EmitOutput ==
  /\ pc = "emit"
  /\ infos' = IF Len(runs) > 0 THEN infos ELSE Append(infos, "no-runs")
  /\ warnings' = warnings \o FinalWarnings(sha, Len(runs))
  /\ sha' = FinalSha(sha, lastSha)
  /\ output' = [set |-> TRUE, value |-> FinalSha(sha, lastSha)]
  /\ pc' = "done"
  /\ UNCHANGED << inputs, repoShas, workflowId, fetched, runs, idx, lastSha, selected, failed,
                  calls, verifyLog, jobLog >>

Next ==
  \/ ListRepoWorkflows
  \/ ListRepoWorkflowsThrows
  \/ ListWorkflowRuns
  \/ ListWorkflowRunsThrows
  \/ ScanRun
  \/ EmitOutput

Spec == Init /\ [][Next]_vars

TypeOK ==
  /\ pc \in {"start", "runs", "scan", "emit", "done", "failed"}
  /\ idx \in 0..Len(runs)
  /\ selected \in 0..idx


(* ---------------- properties ---------------- *)
Done == pc = "done"

\* the cached history holds no commit: [] after a failed listing, [""] after an empty one
HistoryHasNoCommit ==
  repoShas.defined /\ \A i \in 1..Len(repoShas.list) : repoShas.list[i] \notin Shas

\* the first verifyCommit call of the process found the history listing failing
HistoryListingFailed == verifyLog # <<>> /\ verifyLog[1].failed

\* the scan went through every run and stopped at none
Exhausted == Done /\ Len(runs) > 0 /\ selected = 0

\* C1 as stated: when the scan exhausts a non-empty ranked sequence without a qualifying
\* run, the emitted sha is the head SHA of the first (most recent) run of the sequence.
C1_FallbackIsFirstRun ==
  Exhausted => output.value = runs[1].head_sha

\* C1 amended: lastSha always is the head SHA of the run the loop reached last, so when the
\* scan exhausts a non-empty ranked sequence without a qualifying run, the emitted sha is
\* the head SHA of the last run of the sequence.
C1_FallbackIsLastRun ==
  /\ idx > 0 => lastSha = runs[idx].head_sha
  /\ idx = 0 => lastSha = Undefined
  /\ Exhausted => /\ idx = Len(runs)
                  /\ output = [set |-> TRUE, value |-> runs[Len(runs)].head_sha]

C1_Witness ==
  Exhausted /\ Len(runs) >= 2 /\ runs[1].head_sha # runs[Len(runs)].head_sha

\* a branch filter is set, runs were fetched, and none of them is on that branch
NoRunOnBranch ==
  /\ inputs.branch # ""
  /\ Len(fetched) > 0
  /\ \A i \in 1..Len(fetched) : fetched[i].head_branch # inputs.branch

\* C2 as stated: with a branch filter that no fetched run matches, the program emits the
\* SHA of the most recent fetched run as a fallback, together with the warning.
C2_FallbackIsMostRecentFetched ==
  (Done /\ NoRunOnBranch) =>
     /\ output.value = SortRuns(fetched)[1].head_sha
     /\ Includes(warnings, "unable")

\* C2 amended: with a branch filter that no fetched run matches, no run is left after the
\* filter, no run qualifies, and the sha output is set without a value, together with the
\* "unable to determine" warning.
C2_NoShaWhenNoRunOnBranch ==
  (Done /\ NoRunOnBranch) =>
     /\ runs = <<>>
     /\ selected = 0
     /\ output = [set |-> TRUE, value |-> Undefined]
     /\ warnings = << "unable" >>

C2_Witness ==
  Done /\ NoRunOnBranch /\ Len(fetched) >= 2 /\ inputs.job # ""

\* C3 as stated: with an empty candidate sequence no SHA is produced, the "no runs found"
\* information is logged and the "unable to determine" warning is not.
C3_NoWarningWhenNoRuns ==
  (Done /\ runs = <<>>) =>
     /\ output.value = Undefined
     /\ Includes(infos, "no-runs")
     /\ ~Includes(warnings, "unable")

\* C3 amended: with an empty candidate sequence the sha output is set without a value, the
\* "no runs found" information is logged, and the "unable to determine" warning is emitted
\* as well; the "no runs found" information is logged in no other case.
C3_WarningWhenNoRuns ==
  /\ (Done /\ runs = <<>>) =>
        /\ output = [set |-> TRUE, value |-> Undefined]
        /\ infos = << "workflow-id", "no-runs" >>
        /\ warnings = << "unable" >>
  /\ (Done /\ runs # <<>>) => ~Includes(infos, "no-runs")

C3_Witness ==
  Done /\ runs = <<>> /\ fetched = <<>>

\* C4: a sha produced by the primary path belongs to a run that passed every enabled
\* filter: the branch filter, the commit verification, the success of the named job, and
\* without a job filter the success of the run itself.
C4_SelectedPassedEveryFilter ==
  selected # 0 =>
    LET r == runs[selected] IN
    /\ \E i \in 1..Len(fetched) : fetched[i] = r
    /\ sha = r.head_sha
    /\ Done => output = [set |-> TRUE, value |-> r.head_sha]
    /\ inputs.branch # "" => r.head_branch = inputs.branch
    /\ inputs.verify => repoShas.defined /\ (\E i \in 1..Len(repoShas.list) : repoShas.list[i] = r.head_sha)
    /\ inputs.job # "" =>
         \E k \in 1..Len(jobLog) :
           /\ jobLog[k].run_id = r.id
           /\ ~jobLog[k].threw
           /\ \E n \in 1..Len(jobLog[k].jobs) :
                jobLog[k].jobs[n].name = inputs.job /\ jobLog[k].jobs[n].conclusion = "success"
    /\ inputs.job = "" => r.conclusion = "success"

C4_Witness ==
  Done /\ selected # 0 /\ inputs.branch # "" /\ inputs.verify /\ inputs.job # ""

\* the run was looked at and turned down: by the filter, by the verification or by its jobs
TurnedDown(r) ==
  \/ inputs.branch # "" /\ r.head_branch # inputs.branch
  \/ inputs.job = "" /\ r.conclusion # "success"
  \/ inputs.verify /\ repoShas.defined /\ (\A i \in 1..Len(repoShas.list) : repoShas.list[i] # r.head_sha)
  \/ /\ inputs.job # ""
     /\ \E k \in 1..Len(jobLog) :
          /\ jobLog[k].run_id = r.id
          /\ ~jobLog[k].threw
          /\ \A n \in 1..Len(jobLog[k].jobs) :
               ~(jobLog[k].jobs[n].name = inputs.job /\ jobLog[k].jobs[n].conclusion = "success")

\* C5: the candidates are in descending order of creation, and when the primary path
\* produces a sha, every fetched run created strictly later than the selected one fails an
\* enabled criterion.
C5_MostRecentQualifying ==
  /\ \A i, j \in 1..Len(runs) : i < j => runs[i].created_at >= runs[j].created_at
  /\ selected # 0 =>
       \A i \in 1..Len(fetched) :
         fetched[i].created_at > runs[selected].created_at => TurnedDown(fetched[i])

\* three runs [failure, success, success], most recent first, and no filter
C5_Witness ==
  /\ Done /\ selected # 0
  /\ inputs.branch = "" /\ inputs.job = "" /\ ~inputs.verify
  /\ Len(fetched) = 3
  /\ fetched[1].conclusion = "failure" /\ fetched[1].created_at = 2
  /\ fetched[2].conclusion = "success" /\ fetched[2].created_at = 2
  /\ fetched[3].conclusion = "success" /\ fetched[3].created_at = 1
  /\ output.value = fetched[2].head_sha

\* C6: with verify enabled and a commit history without any commit, no run is selected,
\* every candidate is skipped, the scan runs to its end and the result is the fallback.
C6_EmptyHistoryFallsBack ==
  (inputs.verify /\ HistoryHasNoCommit) =>
     /\ selected = 0
     /\ Len(verifyLog) = idx
     /\ \A k \in 1..Len(verifyLog) : ~verifyLog[k].result
     /\ jobLog = <<>>
     /\ pc \in {"scan", "emit", "done"}
     /\ pc = "scan" <=> idx < Len(runs)
     /\ Done => output.value = lastSha /\ Includes(warnings, "unable")

C6_Witness ==
  Done /\ inputs.verify /\ HistoryHasNoCommit /\ idx >= 2 /\ ~HistoryListingFailed

\* C7: the history is listed at most once and the cache written at most once, by the first
\* verifyCommit call; after a successful listing equal SHAs get equal answers; after a
\* failed listing the cache is empty and every answer is false.
C7_HistoryListedOnce ==
  /\ calls.git <= 1 /\ calls.writes <= 1
  /\ repoShas.defined <=> verifyLog # <<>>
  /\ verifyLog # <<>> => calls.git = 1 /\ calls.writes = 1 /\ verifyLog[1].listed = 1
  /\ \A k \in 2..Len(verifyLog) : verifyLog[k].listed = 0 /\ ~verifyLog[k].failed
  /\ \A k \in 1..Len(verifyLog) :
       verifyLog[k].result <=> (\E i \in 1..Len(repoShas.list) : repoShas.list[i] = verifyLog[k].sha)
  /\ \A j, k \in 1..Len(verifyLog) :
       verifyLog[j].sha = verifyLog[k].sha => verifyLog[j].result = verifyLog[k].result
  /\ HistoryListingFailed =>
       repoShas.list = <<>> /\ \A k \in 1..Len(verifyLog) : ~verifyLog[k].result

C7_Witness ==
  \E j, k \in 1..Len(verifyLog) :
    /\ j < k
    /\ verifyLog[j].sha = verifyLog[k].sha
    /\ verifyLog[j].result /\ verifyLog[k].result
    /\ calls.git = 1

\* C8: a failed run sets no sha output: an unresolved workflow name is reported at once,
\* before any run listing or scan, and a collaborator call that throws is reported once
\* and ends the run.
C8_FailedNeverEmits ==
  /\ pc = "failed" <=> failed # <<>>
  /\ failed # <<>> => Len(failed) = 1 /\ ~output.set
  /\ output.set => Done /\ failed = <<>>
  /\ (calls.workflows > 0 /\ workflowId = 0) =>
        /\ pc = "failed"
        /\ failed \in { << "no-workflow" >>, << "error" >> }
        /\ calls.runs = 0 /\ idx = 0 /\ ~output.set
  /\ (\E k \in 1..Len(jobLog) : jobLog[k].threw) => failed = << "error" >> /\ ~output.set

C8_Witness ==
  pc = "failed" /\ idx >= 2 /\ jobLog # <<>> /\ jobLog[Len(jobLog)].threw /\ ~output.set

\* C9 as stated: with verify enabled and a failing history listing, the fallback SHA is
\* returned and exactly two warnings are logged, whatever the number of candidates.
C9_TwoWarnings ==
  (Done /\ inputs.verify /\ HistoryListingFailed) =>
     /\ selected = 0
     /\ output.value = lastSha
     /\ Len(warnings) = 2

\* C9 amended: with verify enabled and a failing history listing, every candidate fails
\* verification, the fallback SHA is returned, and the warnings are: one for the history
\* failure, one skip warning for every candidate run, and one for the fallback.
C9_WarningPerCandidate ==
  (Done /\ inputs.verify /\ HistoryListingFailed) =>
     /\ selected = 0
     /\ Len(verifyLog) = Len(runs)
     /\ \A k \in 1..Len(verifyLog) : ~verifyLog[k].result
     /\ output = [set |-> TRUE, value |-> lastSha]
     /\ Len(warnings) = Len(runs) + 2
     /\ warnings[1] = "history-error"
     /\ \A k \in 2..(Len(runs) + 1) : warnings[k] = "verify-skip"
     /\ warnings[Len(runs) + 2] = "unable"

C9_Witness ==
  Done /\ inputs.verify /\ HistoryListingFailed /\ Len(runs) >= 2

\* C10: the jobs are listed during the scan only: never without a job filter, at most once
\* per run reached, in ranked order, only for a run that passed the branch check and the
\* verification, and never beyond the selected run.
C10_JobFetchesInterleaved ==
  /\ inputs.job = "" => jobLog = <<>>
  /\ Len(jobLog) <= idx
  /\ \A k \in 1..Len(jobLog) :
       LET e == jobLog[k] IN
       /\ e.at \in 1..idx
       /\ e.run_id = runs[e.at].id
       /\ k > 1 => jobLog[k - 1].at < e.at
       /\ inputs.branch # "" => runs[e.at].head_branch = inputs.branch
       /\ inputs.verify => \E i \in 1..Len(repoShas.list) : repoShas.list[i] = runs[e.at].head_sha
       /\ selected # 0 => e.at <= selected
  /\ selected # 0 => idx = selected /\ pc \in {"emit", "done"}

C10_Witness ==
  /\ Done /\ selected # 0 /\ inputs.job # "" /\ inputs.verify
  /\ Len(jobLog) >= 1 /\ Len(jobLog) < idx /\ idx < Len(runs)

====
